---- MODULE Spec2Model ----
(***************************************************************************)
(* Model of pybuilder_integration/tasks.py: the verify_environment task,   *)
(* the directory walk _run_tests_in_directory, the two suite runners,      *)
(* get_test_report_file, integration_artifact_push and the tasks           *)
(* verify_cypress and verify_tavern.                                       *)
(*                                                                         *)
(* Spec is verify_environment; SpecMerge is verify_environment over        *)
(* browser suites that hold engine output; SpecTasks is verify_cypress and *)
(* verify_tavern; SpecLocate is get_test_report_file called on its own.    *)
(*                                                                         *)
(* Paths are sequences of path components.  The external collaborators     *)
(* (engines, installers, artifact manager, log store) are observed through *)
(* the sequence `calls` of the calls made to them, as a test double would  *)
(* record them.                                                            *)
(***************************************************************************)
EXTENDS Integers, Sequences, FiniteSets, TLC

\* ---------------------------------------------------------------- bounds
MaxRoleDirs == 2       \* role directories in the latest artifact set, over both frameworks

\* the names of n role directories
RoleNames(n) == {<<"a", "b", "c", "d", "e">>[i] : i \in 1..n}
FileNames == {"latest.zip"}

Tools == {"cypress", "tavern"}
None == "None"

\* ------------------------------------------------------- directory layout
InitialCwd == <<"work">>
get_working_distribution_directory == <<"work", "dist">>
prepare_reports_directory == <<"work", "reports">>
LatestDirectory == <<"work", "latest">>

VARIABLES
    pc,        \* position in verify_environment
    latest,    \* the `latest` argument of the walk in progress
    listed,    \* the walk is inside a `for dir in os.listdir(...)` loop
    pending,   \* entries of that listing not yet visited
    fsDirs,    \* directories that exist
    fsFiles,   \* plain files that exist
    cwd,       \* os.getcwd()
    environ,   \* os.environ entries exported by the contract runner
    archives,  \* tools whose packaged archive exists
    promote,   \* project property PROMOTE_ARTIFACT as read at line 37:
               \* "true", "false" or "unset" ("unread" before that line)
    walks,     \* outcome of the local and of the latest walk
    calls,     \* calls made so far, in order
    props,     \* the mandatory project properties that are set
    data,      \* content of the files under the target directories
    failures,  \* user-visible failure messages so far, in order
    result,    \* what the last suite runner call returned
    outputs    \* whether the browser suites hold engine output under target

vars == <<pc, latest, listed, pending, fsDirs, fsFiles, cwd, environ,
          archives, promote, walks, calls, props, data, failures, result,
          outputs>>

\* ------------------------------------------------------------ os / os.path
Under(dir, root) == Len(dir) >= Len(root) /\ SubSeq(dir, 1, Len(root)) = root

Exists(p) == p \in fsDirs \/ p \in fsFiles

IsDir(p) == p \in fsDirs

ListDir(p) ==
    {q[Len(q)] : q \in {x \in fsDirs \cup fsFiles : Len(x) = Len(p) + 1 /\ SubSeq(x, 1, Len(p)) = p}}

Join(p, name) == Append(p, name)

RECURSIVE RealPath(_)
RealPath(p) ==
    IF p = <<>> THEN <<>>
    ELSE LET front == RealPath(SubSeq(p, 1, Len(p) - 1))
             last  == p[Len(p)]
         IN IF last = ".."
            THEN (IF front = <<>> THEN <<>> ELSE SubSeq(front, 1, Len(front) - 1))
            ELSE Append(front, last)

Basename(p) == IF p = <<>> THEN "" ELSE p[Len(p)]

\* ------------------------------------------------------ get_test_report_file
\* mutant: the run is named after the suite directory itself
RunName_OfSuite(test_dir) == Basename(RealPath(test_dir))

\* os.path.basename(os.path.realpath(os.path.join(test_dir, os.pardir)))
RunName(test_dir) == Basename(RealPath(Join(test_dir, "..")))

ReportFileName(tool, run_name) == <<tool, "-", run_name, ".out.xml">>

get_test_report_file(test_dir, tool) ==
    [output_file |-> <<prepare_reports_directory, ReportFileName(tool, RunName(test_dir))>>,
     run_name    |-> RunName(test_dir)]

\* ------------------------------------------------------------ observations
Ev(op, tool, dir, role, report, ret, wd) ==
    [op |-> op, tool |-> tool, dir |-> dir, role |-> role, report |-> report,
     ret |-> ret, wd |-> wd]

NoPath == <<>>

RunnerVars == <<calls, cwd, fsDirs, fsFiles, environ, data, failures, result>>
ProjectVars == <<archives, promote, props, outputs>>

MandatoryProperties == {"INTEGRATION_TARGET_URL", "ENVIRONMENT"}

\* a user-visible failure message: its text, the path it names (NoPath when it
\* names none) and the number of calls made when it was issued
Failure(tool, dir, text, path, at) ==
    [tool |-> tool, dir |-> dir, text |-> text, path |-> path, at |-> at]

\* project properties INTEGRATION_TARGET_URL, ENVIRONMENT and ROLE
TargetUrl == "http://target"
EnvironmentName == "dev"
ProjectRole == "a"

\* --------------------------------------------------- _run_tavern_tests_in_dir
\* How the body of the runner ends once the suite directory exists.  Exporting
\* an unset property (os.environ[...] = None, lines 150-151) raises.
TavernOutcomes(has_requirements, set_props) ==
    (IF has_requirements THEN {"install_failed"} ELSE {})
        \cup (IF set_props = MandatoryProperties
              THEN {"chdir_failed", "engine_raised", "ret0", "ret1"}
              ELSE {"export_failed"})

EngineRan(o) == o \in {"engine_raised", "ret0", "ret1"}

EngineReturned(o) == o \in {"ret0", "ret1"}

Ret(o) == IF o = "ret0" THEN 0 ELSE 1

\* mutant: the restore is not in a finally clause and is skipped on an exception
CwdAfterTry_NoFinally(cache_wd, wd_at_exit, abnormal) ==
    IF abnormal THEN wd_at_exit ELSE cache_wd

\* try: os.chdir(test_dir); ret = pytest.main(args)  finally: os.chdir(cache_wd)
CwdAfterTry(cache_wd, wd_at_exit, abnormal) == cache_wd

\* mutant: the requirements file is looked up under another name and never found
NeedsInstall_Never(test_dir) == FALSE

\* if os.path.exists(requirements_file): install_dependencies(...)
NeedsInstall(test_dir) == Exists(Join(test_dir, "requirements.txt"))

\* mutant: the log tail is never fetched
TailsLogs_Never(role) == FALSE

\* if role: CloudwatchLogs(...).print_latest()
TailsLogs(role) == role # None

\* mutant: a non-zero return of the contract engine is not raised
TavernFails_Never(ret) == FALSE

\* if ret != 0: raise BuildFailedException(...)
TavernFails(ret) == ret # 0

\* f"Tavern tests failed see complete output here - {output_file}"
TavernFailureMessage(test_dir, output_file, at) ==
    Failure("tavern", test_dir, "Tavern tests failed see complete output here - ",
            output_file, at)

_run_tavern_tests_in_dir(test_dir, role, res) ==
    LET invoked == Ev("runner", "tavern", test_dir, role, NoPath, 0, cwd) IN
    IF ~Exists(test_dir)
    THEN /\ res = "False"
         /\ result' = res
         /\ calls' = Append(calls, invoked)
         /\ UNCHANGED <<cwd, fsDirs, fsFiles, environ, data, failures>>
    ELSE LET output_file == get_test_report_file(test_dir, "tavern").output_file
             has_req == NeedsInstall(test_dir)
         IN \E o \in TavernOutcomes(has_req, props), moved \in BOOLEAN :
            LET cache_wd == cwd
                \* the engine runs in test_dir and may itself change directory
                wd_at_exit == IF ~EngineRan(o) THEN cache_wd
                              ELSE IF moved THEN Join(test_dir, "tmp") ELSE test_dir
                install == IF has_req
                           THEN <<Ev("install", "tavern", test_dir, role, NoPath,
                                     IF o = "install_failed" THEN 1 ELSE 0, cwd)>>
                           ELSE <<>>
                chdir == IF o \in {"install_failed", "export_failed"} THEN <<>>
                         ELSE <<Ev("chdir", "tavern", test_dir, role, NoPath,
                                   IF o = "chdir_failed" THEN 1 ELSE 0, cache_wd)>>
                engine == IF EngineRan(o)
                          THEN <<Ev("engine", "tavern", test_dir, role, output_file,
                                    IF o = "engine_raised" THEN -1 ELSE Ret(o), test_dir)>>
                          ELSE <<>>
                logs == IF EngineReturned(o) /\ TailsLogs(role)
                        THEN <<Ev("logs", "tavern", test_dir, role, NoPath, 0, cache_wd)>>
                        ELSE <<>>
                made == calls \o <<invoked>> \o install \o chdir \o engine \o logs
            IN /\ (~EngineRan(o) => ~moved)
               /\ res = IF EngineReturned(o) /\ ~TavernFails(Ret(o)) THEN "True"
                        ELSE "raised"
               /\ result' = res
               /\ calls' = made
               /\ failures' = IF EngineReturned(o) /\ TavernFails(Ret(o))
                              THEN Append(failures,
                                          TavernFailureMessage(test_dir, output_file, Len(made)))
                              ELSE failures
               /\ fsDirs' = fsDirs \cup {prepare_reports_directory}
               /\ fsFiles' = fsFiles
               /\ data' = data
               /\ environ' = IF o = "install_failed" THEN environ
                             ELSE IF o = "export_failed"
                             THEN (IF "INTEGRATION_TARGET_URL" \in props
                                   THEN [environ EXCEPT !.TARGET = TargetUrl] ELSE environ)
                             ELSE [TARGET |-> TargetUrl, ENVIRONMENT |-> EnvironmentName]
               /\ cwd' = CwdAfterTry(cache_wd, wd_at_exit, ~EngineReturned(o))

\* ------------------------------------------- _run_cypress_tests_in_directory
\* Modelled: the mandatory property lookups, the exists check, the dependency
\* install, the report path, the engine run, the copy of {work_dir}/target into
\* ./target and the return value.
CypressOutcomes == {"install_failed", "exit0", "exit1"}

\* exec_utility.exec_command(..., report=False): a non-zero exit of the external
\* process is logged with the failure message and execution continues.
exec_command_raises(exit_code) == FALSE

\* mutant: the runner raises on a non-zero exit of the browser engine
CypressReturn_RaiseOnFailure(exit_code) == IF exit_code # 0 THEN "raised" ELSE "True"

\* the runner ignores what exec_command returns and ends with `return True`
CypressReturn(exit_code) == "True"

\* failure_message="Failed to execute cypress tests"
CypressFailureMessage(work_dir, at) ==
    Failure("cypress", work_dir, "Failed to execute cypress tests", NoPath, at)

\* project.get_mandatory_property(name) raises when the property is not set
MissingMandatory(set_props) == MandatoryProperties \ set_props

\* the place under dst of file p of the tree src
Rebase(p, src, dst) == dst \o SubSeq(p, Len(src) + 1, Len(p))

FilesUnder(src, d) == {p \in DOMAIN d : Under(p, src) /\ p # src}

\* mutant: files that already exist under dst are kept
copytree_KeepExisting(src, dst, d) ==
    LET copied == {Rebase(p, src, dst) : p \in FilesUnder(src, d)} IN
    [q \in DOMAIN d \cup copied |->
        IF q \in DOMAIN d THEN d[q]
        ELSE d[CHOOSE p \in FilesUnder(src, d) : Rebase(p, src, dst) = q]]

\* shutil.copytree(src, dst, dirs_exist_ok=True): every file of the tree src is
\* written to the same relative path under dst; d maps a file to its content
copytree(src, dst, d) ==
    LET copied == {Rebase(p, src, dst) : p \in FilesUnder(src, d)} IN
    [q \in DOMAIN d \cup copied |->
        IF q \in copied
        THEN d[CHOOSE p \in FilesUnder(src, d) : Rebase(p, src, dst) = q]
        ELSE d[q]]

_run_cypress_tests_in_directory(work_dir, res) ==
    LET invoked == Ev("runner", "cypress", work_dir, None, NoPath, 0, cwd) IN
    IF MissingMandatory(props) # {}
    THEN /\ res = "raised"
         /\ result' = res
         /\ calls' = Append(calls, invoked)
         /\ UNCHANGED <<cwd, fsDirs, fsFiles, environ, data, failures>>
    ELSE IF ~Exists(work_dir)
    THEN /\ res = "False"
         /\ result' = res
         /\ calls' = Append(calls, invoked)
         /\ UNCHANGED <<cwd, fsDirs, fsFiles, environ, data, failures>>
    ELSE LET has_package_json == Exists(Join(work_dir, "package.json"))
             results_file == get_test_report_file(work_dir, "cypress").output_file
         IN \E o \in CypressOutcomes :
            LET exit_code == IF o = "exit0" THEN 0 ELSE 1
                install == <<Ev(IF has_package_json THEN "install" ELSE "install_cypress",
                                "cypress", work_dir, None, NoPath,
                                IF o = "install_failed" THEN 1 ELSE 0, cwd)>>
                engine == IF o = "install_failed" THEN <<>>
                          ELSE <<Ev("engine", "cypress", work_dir, None, results_file,
                                    exit_code, work_dir)>>
                made == calls \o <<invoked>> \o install \o engine
                merges == o # "install_failed" /\ ~exec_command_raises(exit_code)
                              /\ Exists(Join(work_dir, "target"))
            IN /\ res = IF o = "install_failed" \/ exec_command_raises(exit_code)
                        THEN "raised" ELSE CypressReturn(exit_code)
               /\ result' = res
               /\ calls' = made
               /\ failures' = IF o = "exit1"
                              THEN Append(failures, CypressFailureMessage(work_dir, Len(made)))
                              ELSE failures
               /\ fsDirs' = (IF o = "install_failed" THEN fsDirs
                             ELSE fsDirs \cup {prepare_reports_directory})
                            \cup (IF merges THEN {Join(cwd, "target")} ELSE {})
               /\ data' = IF merges
                          THEN copytree(Join(work_dir, "target"), Join(cwd, "target"), data)
                          ELSE data
               /\ UNCHANGED <<cwd, fsFiles, environ>>

\* ---------------------------------------------------- _run_tests_in_directory
WalkKey == IF latest THEN "latest" ELSE "local"

dist_directory == IF latest THEN LatestDirectory ELSE get_working_distribution_directory

cypress_test_path == Join(dist_directory, "cypress")

tavern_test_path == Join(dist_directory, "tavern")

\* mutant: the walk dispatches without checking that the directory exists
HasSuites_Unchecked(path) == TRUE

\* if os.path.exists(cypress_test_path): / if os.path.exists(tavern_test_path):
HasSuites(path) == Exists(path)

\* what follows a suite runner's return inside the walk
AfterRunner(res, next_pc) ==
    IF res = "raised"
    THEN /\ pc' = "raised"
         /\ walks' = [walks EXCEPT ![WalkKey] = "raised"]
    ELSE /\ pc' = next_pc
         /\ walks' = walks

\* mutant: the walk forgets to pass the role
TavernRole_Omitted(dir) == None

\* the role the walk hands to the contract runner for listing entry dir
TavernRole(dir) == Basename(<<dir>>)

\* os.path.exists(cypress_test_path) is false: fall through to the tavern part
CypressAbsent ==
    /\ pc = "walk_cypress"
    /\ ~HasSuites(cypress_test_path)
    /\ pc' = "walk_tavern"
    /\ UNCHANGED <<latest, listed, pending, walks, RunnerVars, ProjectVars>>

CypressSingle ==
    /\ pc = "walk_cypress"
    /\ HasSuites(cypress_test_path)
    /\ ~latest
    /\ \E res \in {"True", "False", "raised"} :
          /\ _run_cypress_tests_in_directory(cypress_test_path, res)
          /\ AfterRunner(res, "walk_tavern")
    /\ UNCHANGED <<latest, listed, pending, ProjectVars>>

CypressList ==
    /\ pc = "walk_cypress"
    /\ HasSuites(cypress_test_path)
    /\ latest
    /\ ~listed
    /\ listed' = TRUE
    /\ pending' = ListDir(cypress_test_path)
    /\ UNCHANGED <<pc, latest, walks, RunnerVars, ProjectVars>>

CypressEntry ==
    /\ pc = "walk_cypress"
    /\ listed
    /\ \E dir \in pending :
          /\ pending' = pending \ {dir}
          /\ IF IsDir(Join(cypress_test_path, dir))
             THEN \E res \in {"True", "False", "raised"} :
                     /\ _run_cypress_tests_in_directory(Join(cypress_test_path, dir), res)
                     /\ AfterRunner(res, "walk_cypress")
             ELSE UNCHANGED <<pc, walks, RunnerVars>>
    /\ UNCHANGED <<latest, listed, ProjectVars>>

CypressLoopEnd ==
    /\ pc = "walk_cypress"
    /\ listed
    /\ pending = {}
    /\ listed' = FALSE
    /\ pc' = "walk_tavern"
    /\ UNCHANGED <<latest, pending, walks, RunnerVars, ProjectVars>>

\* mutant: promotion follows the local walk directly, without the latest pass
WalkReturns_SkipLatest ==
    /\ pc' = "promote"
    /\ walks' = [walks EXCEPT ![WalkKey] = "returned"]

\* the walk returns (None) to verify_environment
WalkReturns ==
    /\ pc' = IF latest THEN "promote" ELSE "download"
    /\ walks' = [walks EXCEPT ![WalkKey] = "returned"]

TavernAbsent ==
    /\ pc = "walk_tavern"
    /\ ~HasSuites(tavern_test_path)
    /\ WalkReturns
    /\ UNCHANGED <<latest, listed, pending, RunnerVars, ProjectVars>>

TavernSingle ==
    /\ pc = "walk_tavern"
    /\ HasSuites(tavern_test_path)
    /\ ~latest
    /\ \E res \in {"True", "False", "raised"} :
          /\ _run_tavern_tests_in_dir(tavern_test_path, None, res)
          /\ IF res = "raised" THEN AfterRunner(res, pc) ELSE WalkReturns
    /\ UNCHANGED <<latest, listed, pending, ProjectVars>>

TavernList ==
    /\ pc = "walk_tavern"
    /\ HasSuites(tavern_test_path)
    /\ latest
    /\ ~listed
    /\ listed' = TRUE
    /\ pending' = ListDir(tavern_test_path)
    /\ UNCHANGED <<pc, latest, walks, RunnerVars, ProjectVars>>

TavernEntry ==
    /\ pc = "walk_tavern"
    /\ listed
    /\ \E dir \in pending :
          /\ pending' = pending \ {dir}
          /\ IF IsDir(Join(tavern_test_path, dir))
             THEN \E res \in {"True", "False", "raised"} :
                     /\ _run_tavern_tests_in_dir(Join(tavern_test_path, dir), TavernRole(dir), res)
                     /\ AfterRunner(res, "walk_tavern")
             ELSE UNCHANGED <<pc, walks, RunnerVars>>
    /\ UNCHANGED <<latest, listed, ProjectVars>>

TavernLoopEnd ==
    /\ pc = "walk_tavern"
    /\ listed
    /\ pending = {}
    /\ listed' = FALSE
    /\ WalkReturns
    /\ UNCHANGED <<latest, pending, RunnerVars, ProjectVars>>

_run_tests_in_directory ==
    \/ CypressAbsent \/ CypressSingle \/ CypressList \/ CypressEntry \/ CypressLoopEnd
    \/ TavernAbsent \/ TavernSingle \/ TavernList \/ TavernEntry \/ TavernLoopEnd

\* ---------------------------------------------------------- filesystem inputs
Manifest(tool) == IF tool = "cypress" THEN "package.json" ELSE "requirements.txt"

\* a suite directory d: absent, or present with or without its dependency
\* manifest
SuiteTrees(d, tool) ==
    { [dirs |-> {}, files |-> {}],
      [dirs |-> {d}, files |-> {}],
      [dirs |-> {d}, files |-> {Join(d, Manifest(tool))}] }

\* the local distribution directory
LocalToolTrees(tool) == SuiteTrees(Join(get_working_distribution_directory, tool), tool)

\* Engine output kept under {suite}/target: one file every suite writes and one
\* file of the suite's own, each holding the name of the suite that wrote it.
OwnOutput(name) ==
    CASE name = "a" -> "a.json" [] name = "b" -> "b.json" [] name = "c" -> "c.json"
      [] name = "d" -> "d.json" [] name = "e" -> "e.json" [] OTHER -> "single.json"

SuiteOutput(suite, name) ==
    [q \in {Join(Join(suite, "target"), "x.json"),
            Join(Join(suite, "target"), OwnOutput(name))} |-> name]

\* what ./target holds before the run
OldOutput ==
    [q \in {Join(Join(InitialCwd, "target"), "x.json"),
            Join(Join(InitialCwd, "target"), "y.json")} |-> "old"]

\* the suite directories among dirs that lie directly under root
SuitesAt(root, dirs) == {d \in dirs : Len(d) = Len(root) + 1 /\ Under(d, root)}

\* the union of functions f[s] over s in S, whose domains are disjoint
RECURSIVE Merged(_, _)
Merged(f, S) ==
    IF S = {} THEN << >>
    ELSE LET s == CHOOSE x \in S : TRUE IN f[s] @@ Merged(f, S \ {s})

\* the expanded latest artifact set: each framework directory is absent, or holds
\* n role directories and, when the downloaded archives are kept next to their
\* expansion, plain files
LatestToolTrees(tool, keeps_files) ==
    LET d == Join(LatestDirectory, tool) IN
    {[dirs |-> {}, files |-> {}, roles |-> 0]} \cup
    { [dirs  |-> {d} \cup {Join(d, r) : r \in RoleNames(n)},
       files |-> IF keeps_files THEN {Join(d, f) : f \in FileNames} ELSE {},
       roles |-> n]
      : n \in 0..MaxRoleDirs }

\* ------------------------------------------------- integration_artifact_push
\* mutant: upload without checking that the archive exists
ArtifactsToPush_Unchecked(found) == <<"tavern", "cypress">>

\* for tool in ["tavern", "cypress"]: if os.path.exists(artifact_file): upload
ArtifactsToPush(found) == SelectSeq(<<"tavern", "cypress">>, LAMBDA t : t \in found)

UploadEv(tool) == Ev("upload", tool, NoPath, ProjectRole, NoPath, 0, cwd)

\* mutant: a failed upload is caught and the loop goes on
integration_artifact_push_GoesOn(found, failed) ==
    /\ failed \in 0..Len(ArtifactsToPush(found))
    /\ calls' = calls \o [i \in 1..Len(ArtifactsToPush(found)) |->
                     [UploadEv(ArtifactsToPush(found)[i]) EXCEPT
                         !.ret = IF i = failed THEN 1 ELSE 0]]
    /\ pc' = "done"

\* every upload succeeds (failed = 0) or upload number `failed` raises
integration_artifact_push(found, failed) ==
    /\ failed \in 0..Len(ArtifactsToPush(found))
    /\ LET n == IF failed = 0 THEN Len(ArtifactsToPush(found)) ELSE failed
       IN calls' = calls \o [i \in 1..n |->
                        [UploadEv(ArtifactsToPush(found)[i]) EXCEPT
                            !.ret = IF i = failed THEN 1 ELSE 0]]
    /\ pc' = IF failed = 0 THEN "done" ELSE "raised"

\* --------------------------------------------------------- verify_environment
\* artifact_manager.download_artifacts raises
DownloadFails ==
    /\ pc = "download"
    /\ calls' = Append(calls, Ev("download", "-", NoPath, None, NoPath, 1, cwd))
    /\ pc' = "raised"
    /\ UNCHANGED <<latest, listed, pending, walks, fsDirs, fsFiles, cwd, environ,
                   data, failures, result, ProjectVars>>

\* artifact_manager.download_artifacts expands the latest artifact set, and the
\* second walk starts with latest=True
Download ==
    /\ pc = "download"
    /\ \E keeps_files \in BOOLEAN :
       \E c \in LatestToolTrees("cypress", keeps_files),
          t \in LatestToolTrees("tavern", keeps_files) :
          LET suites == IF outputs
                        THEN SuitesAt(Join(LatestDirectory, "cypress"), c.dirs) ELSE {}
          IN /\ c.roles + t.roles <= MaxRoleDirs
             /\ fsDirs' = fsDirs \cup {LatestDirectory} \cup c.dirs \cup t.dirs
                              \cup {Join(d, "target") : d \in suites}
             /\ fsFiles' = fsFiles \cup c.files \cup t.files
             /\ data' = Merged([d \in suites |-> SuiteOutput(d, Basename(d))], suites)
                            @@ data
    /\ calls' = Append(calls, Ev("download", "-", LatestDirectory, None, NoPath, 0, cwd))
    /\ latest' = TRUE
    /\ walks' = [walks EXCEPT !["latest"] = "running"]
    /\ pc' = "walk_cypress"
    /\ UNCHANGED <<listed, pending, cwd, environ, failures, result, ProjectVars>>

\* mutant: the flag is not consulted
PromoteArtifact_Always(value) == TRUE

\* project.get_property(PROMOTE_ARTIFACT, True)
PromoteArtifact(value) == IF value = "unset" THEN TRUE ELSE value = "true"

PromoteValues == {"true", "false", "unset"}

\* The property and the archive files are inputs of this step: nothing before
\* line 37 reads or writes them.
Promote ==
    /\ pc = "promote"
    /\ \E value \in PromoteValues, found \in SUBSET Tools, failed \in 0..2 :
          /\ PromoteArtifact(value)
          /\ promote' = value
          /\ archives' = found
          /\ integration_artifact_push(found, failed)
    /\ UNCHANGED <<latest, listed, pending, walks, fsDirs, fsFiles, cwd, environ,
                   data, failures, result, outputs, props>>

NoPromote ==
    /\ pc = "promote"
    /\ \E value \in PromoteValues, found \in SUBSET Tools :
          /\ ~PromoteArtifact(value)
          /\ promote' = value
          /\ archives' = found
    /\ pc' = "done"
    /\ UNCHANGED <<latest, listed, pending, walks, RunnerVars, outputs, props>>

\* the state verify_environment starts in; with_outputs says whether the browser
\* suites of this run hold engine output under their target directory
InitWith(with_outputs) ==
    /\ pc = "walk_cypress"
    /\ latest = FALSE
    /\ listed = FALSE
    /\ pending = {}
    /\ outputs = with_outputs
    /\ \E c \in LocalToolTrees("cypress"), t \in LocalToolTrees("tavern") :
          LET suites == IF with_outputs THEN c.dirs ELSE {} IN
          /\ fsDirs = {InitialCwd, get_working_distribution_directory} \cup c.dirs \cup t.dirs
                         \cup {Join(d, "target") : d \in suites}
                         \cup (IF with_outputs THEN {Join(InitialCwd, "target")} ELSE {})
          /\ fsFiles = c.files \cup t.files
          /\ data = Merged([d \in suites |-> SuiteOutput(d, None)], suites)
                       @@ (IF with_outputs THEN OldOutput ELSE << >>)
    /\ cwd = InitialCwd
    /\ environ = [TARGET |-> None, ENVIRONMENT |-> None]
    /\ archives = {}
    /\ promote = "unread"
    /\ props = MandatoryProperties
    /\ walks = [local |-> "running", latest |-> "none"]
    /\ calls = <<>>
    /\ failures = <<>>
    /\ result = None

Init == InitWith(FALSE)

verify_environment ==
    \/ _run_tests_in_directory
    \/ DownloadFails \/ Download
    \/ Promote \/ NoPromote

Next == verify_environment

Spec == Init /\ [][Next]_vars

\* verify_environment over browser suites that hold engine output under target
InitMerge == InitWith(TRUE)

SpecMerge == InitMerge /\ [][Next]_vars

\* ------------------------------------------------ verify_cypress, verify_tavern
\* project.expand_path("$CYPRESS_TEST_DIR"), project.expand_path("$TAVERN_TEST_DIR")
CypressTestDir == <<"work", "src", "cypress">>
TavernTestDir == <<"work", "src", "tavern">>

\* if _run_..._tests_in_...(...): package_artifacts(...)
Packages(res) == res = "True"

\* directory_utility.package_artifacts leaves the archive of the tool behind
package_artifacts(res, tool) == IF Packages(res) THEN archives \cup {tool} ELSE archives

verify_cypress ==
    /\ pc = "verify_cypress"
    /\ \E res \in {"True", "False", "raised"} :
          /\ _run_cypress_tests_in_directory(CypressTestDir, res)
          /\ archives' = package_artifacts(res, "cypress")
          /\ pc' = IF res = "raised" THEN "raised" ELSE "verify_tavern"
    /\ UNCHANGED <<latest, listed, pending, walks, promote, props, outputs>>

verify_tavern ==
    /\ pc = "verify_tavern"
    /\ \E res \in {"True", "False", "raised"} :
          /\ _run_tavern_tests_in_dir(TavernTestDir, None, res)
          /\ archives' = package_artifacts(res, "tavern")
          /\ pc' = IF res = "raised" THEN "raised" ELSE "done"
    /\ UNCHANGED <<latest, listed, pending, walks, promote, props, outputs>>

\* The build runs verify_cypress and then verify_tavern, or verify_tavern alone;
\* any subset of the mandatory properties is set.
InitTasks ==
    /\ pc \in {"verify_cypress", "verify_tavern"}
    /\ latest = FALSE
    /\ listed = FALSE
    /\ pending = {}
    /\ outputs \in BOOLEAN
    /\ \E c \in SuiteTrees(CypressTestDir, "cypress"), t \in SuiteTrees(TavernTestDir, "tavern") :
          LET suites == IF outputs THEN c.dirs ELSE {} IN
          /\ fsDirs = {InitialCwd, <<"work", "src">>} \cup c.dirs \cup t.dirs
                         \cup {Join(d, "target") : d \in suites}
                         \cup (IF outputs THEN {Join(InitialCwd, "target")} ELSE {})
          /\ fsFiles = c.files \cup t.files
          /\ data = Merged([d \in suites |-> SuiteOutput(d, None)], suites)
                       @@ (IF outputs THEN OldOutput ELSE << >>)
    /\ cwd = InitialCwd
    /\ environ = [TARGET |-> None, ENVIRONMENT |-> None]
    /\ archives = {}
    /\ promote = "unread"
    /\ props \in SUBSET MandatoryProperties
    /\ walks = [local |-> "none", latest |-> "none"]
    /\ calls = <<>>
    /\ failures = <<>>
    /\ result = None

NextTasks == verify_cypress \/ verify_tavern

SpecTasks == InitTasks /\ [][NextTasks]_vars

\* ------------------------------------------- get_test_report_file on its own
MaxDepth == 2

PathNames == {"a", "b", ".."}

\* the test directories: absolute paths of at most MaxDepth components
TestDirs == UNION {[1..n -> PathNames] : n \in 0..MaxDepth}

\* one call of get_test_report_file; prepare_reports_directory makes sure that
\* the reports directory exists
Locate ==
    /\ pc \in {"locate", "locate_again"}
    /\ \E test_dir \in TestDirs, tool \in Tools :
          LET r == get_test_report_file(test_dir, tool) IN
          /\ calls' = Append(calls, Ev("locate", tool, test_dir, None, r.output_file, 0, cwd))
          /\ result' = r
    /\ fsDirs' = fsDirs \cup {prepare_reports_directory}
    /\ pc' = IF pc = "locate" THEN "locate_again" ELSE "done"
    /\ UNCHANGED <<latest, listed, pending, walks, fsFiles, cwd, environ, data, failures,
                   ProjectVars>>

InitLocate ==
    /\ pc = "locate"
    /\ latest = FALSE
    /\ listed = FALSE
    /\ pending = {}
    /\ outputs = FALSE
    /\ fsDirs = {InitialCwd}
    /\ fsFiles = {}
    /\ data = << >>
    /\ cwd = InitialCwd
    /\ environ = [TARGET |-> None, ENVIRONMENT |-> None]
    /\ archives = {}
    /\ promote = "unread"
    /\ props = MandatoryProperties
    /\ walks = [local |-> "none", latest |-> "none"]
    /\ calls = <<>>
    /\ failures = <<>>
    /\ result = None

SpecLocate == InitLocate /\ [][Locate]_vars

\* ===================================================================== claims
Idx == 1..Len(calls)

SuiteOps == {"runner", "install", "install_cypress", "chdir", "engine", "logs"}

\* the walk ("local" or "latest") a suite call belongs to
PassOf(e) == IF Under(e.dir, LatestDirectory) THEN "latest" ELSE "local"

RootOf(w) == IF w = "latest" THEN LatestDirectory ELSE get_working_distribution_directory

ToolPath(w, tool) == Join(RootOf(w), tool)

\* an engine run that failed: non-zero exit, or (ret = -1) an exception
FailedEngine(i) == calls[i].op = "engine" /\ calls[i].ret # 0

Uploads == {i \in Idx : calls[i].op = "upload"}

\* C1: if any suite of the local pass or of the latest pass fails (non-zero
\* engine exit), upload is never invoked in that run of verify_environment.
C1_NoUploadAfterFailure ==
    (\E i \in Idx : FailedEngine(i)) => Uploads = {}

\* C2: two sub-suite invocations of the same framework for different role
\* subdirectories of the latest root get different report paths.
C2_ReportPathsDistinct ==
    \A i, j \in Idx :
        ( /\ calls[i].op = "engine" /\ calls[j].op = "engine"
          /\ calls[i].tool = calls[j].tool
          /\ PassOf(calls[i]) = "latest" /\ PassOf(calls[j]) = "latest"
          /\ calls[i].dir # calls[j].dir )
        => calls[i].report # calls[j].report

\* C3: in the latest walk, once the contract engine of one role directory
\* returns non-zero the walk has raised a fatal failure, and no contract suite
\* of another role directory is invoked after it.
C3_ContractFailFast ==
    \A i \in Idx :
        ( /\ calls[i].op = "engine" /\ calls[i].tool = "tavern" /\ calls[i].ret = 1
          /\ PassOf(calls[i]) = "latest" )
        => /\ pc = "raised"
           /\ walks["latest"] = "raised"
           /\ \A j \in Idx : j > i => calls[j].op = "logs" /\ calls[j].dir = calls[i].dir

\* a latest walk over contract sub-suites {a, b}: a's engine returned non-zero
\* and b, still unvisited, is never run
C3_Witness ==
    /\ IsDir(Join(ToolPath("latest", "tavern"), "a"))
    /\ IsDir(Join(ToolPath("latest", "tavern"), "b"))
    /\ "b" \in pending
    /\ \E i \in Idx : /\ calls[i].op = "engine" /\ calls[i].tool = "tavern"
                      /\ calls[i].ret = 1 /\ calls[i].role = "a"
    /\ pc = "raised"

\* C4: every call of the contract runner leaves the working directory as it
\* found it, on every exit path (return, non-zero engine, engine exception,
\* failed chdir).
C4_CwdRestored == [][cwd' = cwd]_vars

\* one contract suite returned normally and a later one ended with an engine
\* exception, both having run inside their suite directory; the working
\* directory is the caller's
C4_Witness ==
    /\ \E i \in Idx : calls[i].op = "engine" /\ calls[i].tool = "tavern"
                      /\ calls[i].ret = 0 /\ calls[i].wd # InitialCwd
    /\ \E i \in Idx : calls[i].op = "engine" /\ calls[i].tool = "tavern"
                      /\ calls[i].ret = -1 /\ calls[i].wd # InitialCwd
    /\ cwd = InitialCwd

\* the suite directories the walk w dispatches for a framework: the role
\* directories in a latest walk, the framework directory itself otherwise
SuiteDirs(w, tool) ==
    LET path == ToolPath(w, tool) IN
    IF ~Exists(path) THEN {}
    ELSE IF w = "latest" THEN {Join(path, d) : d \in {x \in ListDir(path) : IsDir(Join(path, x))}}
    ELSE {path}

\* the runner invocations of a framework's runner on directory dir
RunnerCalls(tool, dir) ==
    {i \in Idx : calls[i].op = "runner" /\ calls[i].tool = tool /\ calls[i].dir = dir}

\* C5: a non-zero exit of the browser engine is not fatal to the walk: the walk
\* does not raise on it, and when the walk returns every browser sub-suite and
\* every contract suite of the same walk has been run.
C5_BrowserFailureNonFatal ==
    \A i \in Idx :
        (FailedEngine(i) /\ calls[i].tool = "cypress")
        => LET w == PassOf(calls[i]) IN
           /\ (i = Len(calls) => pc # "raised" /\ walks[w] # "raised")
           /\ (walks[w] = "returned" =>
                 \A tool \in Tools : \A d \in SuiteDirs(w, tool) : RunnerCalls(tool, d) # {})

\* the local walk returned although its browser suite exited non-zero, the
\* contract suite having run after it; the latest walk returned although the
\* first of its two browser sub-suites exited non-zero, the second having run
\* after it
C5_Witness ==
    /\ walks["local"] = "returned"
    /\ walks["latest"] = "returned"
    /\ \E i, j \in Idx :
          /\ i < j
          /\ FailedEngine(i) /\ calls[i].tool = "cypress" /\ PassOf(calls[i]) = "local"
          /\ calls[j].op = "engine" /\ calls[j].tool = "tavern" /\ PassOf(calls[j]) = "local"
    /\ \E i, j \in Idx :
          /\ i < j
          /\ FailedEngine(i) /\ calls[i].tool = "cypress" /\ PassOf(calls[i]) = "latest"
          /\ calls[j].op = "engine" /\ calls[j].tool = "cypress" /\ PassOf(calls[j]) = "latest"
          /\ calls[j].dir # calls[i].dir

\* C6: a walk (latest or not) over a root with neither a cypress nor a tavern
\* subdirectory does not raise and makes no runner invocation, install or engine
\* execution.
C6_EmptyRootSkipped ==
    \A w \in {"local", "latest"} :
        ( /\ walks[w] # "none"
          /\ ~Exists(ToolPath(w, "cypress"))
          /\ ~Exists(ToolPath(w, "tavern")) )
        => /\ walks[w] # "raised"
           /\ \A i \in Idx : calls[i].op \in SuiteOps => PassOf(calls[i]) # w

\* both walks returned over roots without framework directories
C6_Witness ==
    /\ walks["local"] = "returned"
    /\ walks["latest"] = "returned"
    /\ \A w \in {"local", "latest"}, tool \in Tools : ~Exists(ToolPath(w, tool))
    /\ \A i \in Idx : calls[i].op \notin SuiteOps

\* C7: when verify_environment completes with promotion on and no suite failed,
\* upload has been invoked exactly once for each (framework, role) whose packaged
\* archive exists and for no other pair.
C7_UploadOncePerArchive ==
    ( /\ pc = "done"
      /\ promote \in {"true", "unset"}
      /\ \A i \in Idx : ~FailedEngine(i) )
    => /\ \A tool \in archives :
            Cardinality({i \in Uploads : calls[i].tool = tool /\ calls[i].role = ProjectRole}) = 1
       /\ \A i \in Uploads : calls[i].tool \in archives /\ calls[i].role = ProjectRole

\* both passes ran suites that all succeeded, both archives exist, two uploads
C7_Witness ==
    /\ pc = "done"
    /\ promote = "true"
    /\ archives = Tools
    /\ Cardinality(Uploads) = 2
    /\ \A i \in Idx : ~FailedEngine(i)
    /\ \E i, j \in Idx : /\ calls[i].op = "engine" /\ PassOf(calls[i]) = "local"
                         /\ calls[j].op = "engine" /\ PassOf(calls[j]) = "latest"

Downloads == {i \in Idx : calls[i].op = "download"}

\* C8: verify_environment runs the local tree first, in Single mode; then
\* downloads the latest artifact set; then runs the downloaded tree per role;
\* uploads come after all of these.
C8_FixedOrder ==
    /\ \A i \in Idx : (calls[i].op \in SuiteOps /\ PassOf(calls[i]) = "local")
          => /\ \A j \in Downloads : i < j
             /\ calls[i].role = None
             /\ calls[i].dir = ToolPath("local", calls[i].tool)
    /\ \A i \in Idx : (calls[i].op \in SuiteOps /\ PassOf(calls[i]) = "latest")
          => /\ \E j \in Downloads : j < i /\ calls[j].ret = 0
             /\ Len(calls[i].dir) = Len(ToolPath("latest", calls[i].tool)) + 1
    /\ Downloads # {} => walks["local"] = "returned"
    /\ \A i \in Uploads :
          /\ walks["local"] = "returned" /\ walks["latest"] = "returned"
          /\ Downloads # {}
          /\ \A j \in Idx : calls[j].op # "upload" => j < i

\* a complete run: local suite, download, latest suite, upload, in that order
C8_Witness ==
    /\ pc = "done"
    /\ \E i, j, k, l \in Idx :
          /\ i < j /\ j < k /\ k < l
          /\ calls[i].op = "engine" /\ PassOf(calls[i]) = "local"
          /\ calls[j].op = "download"
          /\ calls[k].op = "engine" /\ PassOf(calls[k]) = "latest"
          /\ calls[l].op = "upload"

\* the runner invocations a returned walk w must show for a framework; in a
\* latest walk the runner's role is the role directory's basename when
\* passes_role, and no role otherwise
RunnerOncePerSuite(w, tool, passes_role) ==
    /\ \A d \in SuiteDirs(w, tool) :
          /\ Cardinality(RunnerCalls(tool, d)) = 1
          /\ \A i \in RunnerCalls(tool, d) :
                calls[i].role = IF w = "latest" /\ passes_role THEN Basename(d) ELSE None
    /\ \A i \in Idx :
          (calls[i].op = "runner" /\ calls[i].tool = tool /\ PassOf(calls[i]) = w)
          => calls[i].dir \in SuiteDirs(w, tool)

\* C9 as claimed: in a latest walk both runners receive the subdirectory's
\* basename as role.
C9_RoleToBothRunners ==
    \A w \in {"local", "latest"} : walks[w] = "returned" =>
        \A tool \in Tools : RunnerOncePerSuite(w, tool, TRUE)

\* C9 amended: when a walk returns, each existing framework directory has had
\* its runner invoked exactly once per immediate subdirectory (latest) or once
\* on the framework directory (not latest), never on a non-directory entry; the
\* contract runner receives the subdirectory's basename as role, the browser
\* runner receives no role, and no role is passed when latest is false.
C9_RunnerOncePerSuite ==
    \A w \in {"local", "latest"} : walks[w] = "returned" =>
        /\ RunnerOncePerSuite(w, "tavern", TRUE)
        /\ RunnerOncePerSuite(w, "cypress", FALSE)

\* a returned latest walk over two contract role directories and a plain file,
\* after a returned local walk that ran both frameworks
C9_Witness ==
    /\ walks["local"] = "returned"
    /\ walks["latest"] = "returned"
    /\ Cardinality(SuiteDirs("latest", "tavern")) = 2
    /\ \E f \in FileNames : Join(ToolPath("latest", "tavern"), f) \in fsFiles
    /\ \A tool \in Tools : SuiteDirs("local", tool) # {}

\* C10: the outcome of a walk tells failure from success: a walk that a
\* sub-suite failed in does not return normally as a successful one does.
C10_FailureVisible ==
    \A w \in {"local", "latest"} :
        walks[w] = "returned" => \A i \in Idx : FailedEngine(i) => PassOf(calls[i]) # w

\* C11: every engine failure names the report path: whenever an engine ends
\* non-zero, a failure message of that suite names exactly the report path that
\* was handed to the engine.
C11_FailureNamesReport ==
    \A i \in Idx :
        calls[i].op = "engine" /\ calls[i].ret = 1 =>
            \E k \in 1..Len(failures) :
                /\ failures[k].tool = calls[i].tool
                /\ failures[k].dir = calls[i].dir
                /\ failures[k].path = calls[i].report

\* the runner call made by this step, when its suite directory does not exist
SkippedCall(tool) ==
    /\ Len(calls') > Len(calls)
    /\ calls'[Len(calls) + 1].op = "runner"
    /\ calls'[Len(calls) + 1].tool = tool
    /\ ~Exists(calls'[Len(calls) + 1].dir)

\* C12: a suite runner called on a directory that does not exist returns false
\* without raising, whatever the configuration, and does nothing else: no
\* install, no report directory, no exported variable, no change of working
\* directory, no engine run and no target merge.
C12_AbsentSuiteSkipped ==
    [][(\E tool \in Tools : SkippedCall(tool)) =>
          /\ result' = "False"
          /\ pc' # "raised"
          /\ calls' = Append(calls, calls'[Len(calls) + 1])
          /\ UNCHANGED <<fsDirs, fsFiles, environ, cwd, data, failures>>]_vars

\* ./target of the build and the target directory of the suite of call i
CanonicalTarget == Join(InitialCwd, "target")

SuiteTarget(i) == Join(calls[i].dir, "target")

\* the browser engine runs so far whose suite holds a file at the place of q
Writers(q) ==
    {i \in Idx : /\ calls[i].op = "engine"
                 /\ calls[i].tool = "cypress"
                 /\ \E p \in FilesUnder(SuiteTarget(i), data) :
                       Rebase(p, SuiteTarget(i), CanonicalTarget) = q}

LastOf(S) == CHOOSE i \in S : \A j \in S : j <= i

\* C13: after a browser suite has run, every file under its target directory
\* is under ./target at the same relative path; a file of ./target holds the
\* content of the last suite run so far that has a file at that path, and what it
\* held before the build when no suite has one.
C13_TargetMerged ==
    /\ \A i \in Idx : calls[i].op = "engine" /\ calls[i].tool = "cypress" =>
          \A p \in FilesUnder(SuiteTarget(i), data) :
             Rebase(p, SuiteTarget(i), CanonicalTarget) \in DOMAIN data
    /\ \A q \in FilesUnder(CanonicalTarget, data) :
          LET writers == Writers(q) IN
          IF writers = {}
          THEN q \in DOMAIN OldOutput /\ data[q] = OldOutput[q]
          ELSE LET src == SuiteTarget(LastOf(writers)) IN
               \E p \in FilesUnder(src, data) :
                  /\ Rebase(p, src, CanonicalTarget) = q
                  /\ data[q] = data[p]

\* three browser suites have run, the single local one and then role b before
\* role a: x.json, which ./target held before, has the content of a, each suite's
\* own file is there and y.json is as it was
C13_Witness ==
    /\ Cardinality(Writers(Join(CanonicalTarget, "x.json"))) = 3
    /\ data[Join(CanonicalTarget, "x.json")] = "a"
    /\ data[Join(CanonicalTarget, "y.json")] = "old"
    /\ Join(CanonicalTarget, "a.json") \in DOMAIN data
    /\ Join(CanonicalTarget, "b.json") \in DOMAIN data
    /\ Join(CanonicalTarget, "single.json") \in DOMAIN data

\* the directory that holds directory p
ParentDir(p) ==
    LET r == RealPath(p) IN IF r = <<>> THEN <<>> ELSE SubSeq(r, 1, Len(r) - 1)

Located == {i \in Idx : calls[i].op = "locate"}

ReturnedContractRuns ==
    {i \in Idx : calls[i].op = "engine" /\ calls[i].tool = "tavern" /\ calls[i].ret \in {0, 1}}

LogFetches(dir) == {j \in Idx : calls[j].op = "logs" /\ calls[j].dir = dir}

\* C15: when the contract engine has returned for a suite run with a role, the
\* log tail of that role is fetched exactly once, right after the engine call,
\* whether it returned zero or not, and the build failure of a non-zero return is
\* raised after the fetch; a suite run without a role fetches no log tail.
C15_LogTailOnce ==
    /\ \A i \in ReturnedContractRuns :
          IF calls[i].role # None
          THEN /\ LogFetches(calls[i].dir) = {i + 1}
               /\ calls[i + 1].role = calls[i].role
               /\ calls[i].ret = 1 =>
                     \E k \in 1..Len(failures) :
                        failures[k].dir = calls[i].dir /\ failures[k].at >= i + 1
          ELSE LogFetches(calls[i].dir) = {}
    /\ \A j \in Idx : calls[j].op = "logs" =>
          /\ calls[j].role # None
          /\ j - 1 \in ReturnedContractRuns
          /\ calls[j - 1].dir = calls[j].dir

\* the local contract suite has run without a role and without a fetch, role a
\* of the latest set has passed and role b has failed, each followed by its fetch
C15_Witness ==
    /\ pc = "raised"
    /\ \E i, j, k \in ReturnedContractRuns :
          /\ calls[i].role = None /\ calls[i].ret = 0
          /\ calls[j].role = "a" /\ calls[j].ret = 0
          /\ calls[k].role = "b" /\ calls[k].ret = 1
          /\ j < k
          /\ calls[j + 1].op = "logs"
          /\ calls[k + 1].op = "logs"
          /\ k + 1 = Len(calls)

InstallOps == {"install", "install_cypress"}

\* the install a suite needs before its engine runs: the declared dependencies
\* when its manifest exists, else the engine itself for a browser suite
InstallNeeded(tool, dir) ==
    IF Join(dir, Manifest(tool)) \in fsFiles THEN {"install"}
    ELSE IF tool = "cypress" THEN {"install_cypress"} ELSE {}

\* C16: in each suite runner the install comes before the engine: an engine has
\* run only after the install its suite needs has succeeded, and a failed install
\* is fatal: it is the last thing the build does and the engine of that suite is
\* never run.
C16_InstallBeforeEngine ==
    /\ \A i \in Idx : calls[i].op = "engine" =>
          \A op \in InstallNeeded(calls[i].tool, calls[i].dir) :
             \E j \in 1..(i - 1) :
                /\ calls[j].op = op
                /\ calls[j].dir = calls[i].dir
                /\ calls[j].ret = 0
    /\ \A j \in Idx : calls[j].op \in InstallOps =>
          /\ calls[j].op \in InstallNeeded(calls[j].tool, calls[j].dir)
          /\ calls[j].ret # 0 =>
                /\ j = Len(calls)
                /\ pc = "raised"
                /\ \A i \in Idx : calls[i].op = "engine" => calls[i].dir # calls[j].dir

\* the browser suite has installed its declared dependencies and run, and the
\* install of the contract suite's requirements has then failed
C16_Witness ==
    /\ pc = "raised"
    /\ \E i \in Idx :
          /\ calls[i].op = "engine" /\ calls[i].tool = "cypress"
          /\ calls[i - 1].op = "install" /\ calls[i - 1].ret = 0
    /\ calls[Len(calls)].op = "install"
    /\ calls[Len(calls)].tool = "tavern"
    /\ calls[Len(calls)].ret = 1

\* C17: a transfer failure is fatal: when download_artifacts raises, the build
\* ends there, no suite of the latest set is run and nothing is uploaded; when an
\* upload raises, the build ends there, so no further upload is attempted.
C17_TransferFailureFatal ==
    /\ \A i \in Idx : calls[i].op = "download" /\ calls[i].ret # 0 =>
          /\ i = Len(calls)
          /\ pc = "raised"
          /\ walks["latest"] = "none"
          /\ Uploads = {}
          /\ \A j \in Idx : calls[j].op \in SuiteOps => PassOf(calls[j]) = "local"
    /\ \A i \in Uploads : calls[i].ret # 0 =>
          /\ i = Len(calls)
          /\ pc = "raised"

\* both archives exist and the first upload, of the tavern archive, has raised:
\* the cypress archive is not uploaded
C17_Witness ==
    /\ pc = "raised"
    /\ archives = Tools
    /\ Cardinality(Uploads) = 1
    /\ calls[Len(calls)].op = "upload"
    /\ calls[Len(calls)].tool = "tavern"
    /\ calls[Len(calls)].ret = 1

\* download_artifacts has raised after a local pass that ran a suite
C17_DownloadWitness ==
    /\ pc = "raised"
    /\ Len(calls) > 1
    /\ calls[Len(calls)].op = "download"
    /\ calls[Len(calls)].ret = 1
    /\ calls[1].op = "runner"

EngineRuns(tool) == {i \in Idx : calls[i].op = "engine" /\ calls[i].tool = tool}

\* C18: verify_tavern and verify_cypress package a suite only after a
\* successful run: an archive has been packaged for a tool only if its engine
\* has run (the suite directory existed) and has not failed.
C18_PackageOnlyAfterSuccess ==
    \A tool \in archives :
        /\ EngineRuns(tool) # {}
        /\ \A i \in EngineRuns(tool) : calls[i].ret = 0

UploadedTools == {calls[i].tool : i \in Uploads}

\* C19: the promote flag gates the upload: with the flag false nothing is ever
\* uploaded, whatever the suites did; with the flag unset the build uploads as it
\* does with the flag true: every archive that exists, unless an upload raised.
C19_PromoteFlagGates ==
    /\ promote \in {"false", "unread"} => Uploads = {}
    /\ promote \in {"true", "unset"} =>
          /\ UploadedTools \subseteq archives
          /\ (\A i \in Uploads : calls[i].ret = 0) => UploadedTools = archives

\* both passes have run an engine without a failure and both archives exist,
\* and with the flag false the build is done without an upload
C19_Witness ==
    /\ pc = "done"
    /\ promote = "false"
    /\ archives = Tools
    /\ Uploads = {}
    /\ \A i \in Idx : ~FailedEngine(i)
    /\ \E i, j \in Idx : /\ calls[i].op = "engine" /\ PassOf(calls[i]) = "local"
                         /\ calls[j].op = "engine" /\ PassOf(calls[j]) = "latest"

\* with the flag unset both archives have been uploaded
C19_UnsetWitness ==
    /\ pc = "done"
    /\ promote = "unset"
    /\ UploadedTools = Tools

\* a contract engine run of walk w that ended in a fatal failure
FatalContractRun(i, w) ==
    FailedEngine(i) /\ calls[i].tool = "tavern" /\ PassOf(calls[i]) = w

\* C20: a fatal contract-suite failure in the local pass ends verify_environment
\* before any remote interaction: nothing is downloaded, no suite of the latest
\* set runs and nothing is uploaded; and in either walk every browser suite of the
\* walk has run its engine before the contract failure.
C20_LocalContractFailureAborts ==
    /\ \A i \in Idx : FatalContractRun(i, "local") =>
          /\ pc = "raised"
          /\ Downloads = {}
          /\ Uploads = {}
          /\ walks["latest"] = "none"
          /\ \A j \in Idx : calls[j].op \in SuiteOps => PassOf(calls[j]) = "local"
    /\ \A w \in {"local", "latest"} : \A i \in Idx : FatalContractRun(i, w) =>
          \A d \in SuiteDirs(w, "cypress") :
             \E j \in 1..(i - 1) :
                calls[j].op = "engine" /\ calls[j].tool = "cypress" /\ calls[j].dir = d

\* the local browser suite has run and failed, and the local contract engine
\* has then returned non-zero
C20_Witness ==
    /\ pc = "raised"
    /\ \E i, j \in Idx :
          /\ j < i
          /\ FailedEngine(j) /\ calls[j].tool = "cypress"
          /\ FatalContractRun(i, "local") /\ calls[i].ret = 1
    /\ Downloads = {}

\* the same in the latest pass, after its browser suite
C20_LatestWitness ==
    /\ pc = "raised"
    /\ \E i \in Idx : FatalContractRun(i, "latest")
    /\ Cardinality(SuiteDirs("latest", "cypress")) = 1
    /\ SuiteDirs("local", "cypress") # {}

====
